---- MODULE Spec2Model ----
(***************************************************************************)
(* Pagination of an EPUB book: the PaginationEngine class and the          *)
(* usePagination hook of components/Reader/Reader.jsx, driven by the       *)
(* Reader component's effects.                                             *)
(*                                                                         *)
(* Two specifications share the engine's definitions:                      *)
(*   EngineSpec  one PaginationEngine and its calculateAllPages passes,    *)
(*               for every book and every renderSettings of the bounded    *)
(*               sets;                                                     *)
(*   Spec        the usePagination hook: React state, the passes and the   *)
(*               page loads in flight, and the events that drive them.     *)
(* Two more model the code around the reader:                              *)
(*   ParserSpec  EPUBParser.parse over ZipHandler, ContainerParser and     *)
(*               OPFParser, and the calls on the parsed book;              *)
(*   LibrarySpec LibraryProvider.addBook and deleteBook over the two       *)
(*               IndexedDB object stores.                                  *)
(***************************************************************************)
EXTENDS Integers, Sequences, FiniteSets, Bags, TLC

VARIABLES
    eng,            \* EngineSpec: the PaginationEngine under test
    book,           \* Reader: the book useEPUB holds (NoBook before a load)
    renderSettings, \* Reader: {fontSize, viewport.height}
    currentPage,    \* usePagination state
    totalPages,     \* usePagination state
    pageContent,    \* usePagination state
    paginationData, \* usePagination state: {...result, engine} or Null
    calculating,    \* usePagination state
    passes,         \* calculatePages invocations in flight (a bag)
    loads,          \* loadPage invocations in flight (a bag)
    events,         \* the number of user and environment events so far
    earlier,        \* EngineSpec: what the engine's previous pass returned
    archive,        \* ParserSpec: the buffer handed to EPUBParser.parse
    parser,         \* ParserSpec: the EPUBParser and its parse() call
    call,           \* ParserSpec: the last call on the book or the ZipHandler
    stores,         \* LibrarySpec: the IndexedDB stores 'books' and 'files'
    transactions,   \* LibrarySpec: the readwrite transactions, oldest first
    books,          \* LibrarySpec: the React state of LibraryProvider
    epub            \* EpubSpec: the state of useEPUB and its calls in flight

hookVars == <<book, renderSettings, currentPage, totalPages, pageContent,
              paginationData, calculating, passes, loads, events>>

parserVars == <<archive, parser, call>>

libraryVars == <<stores, transactions, books>>

epubVars == <<epub>>

vars == <<eng, earlier, hookVars, parserVars, libraryVars, epubVars>>

(***************************************************************************)
(* Bounds and data.                                                        *)
(***************************************************************************)
MaxEvents == 4          \* user and environment events in one behaviour
MaxGoTo == 4            \* goToPage is called with n in -1..MaxGoTo

ControlsAllowance == 120    \* viewport.height - 120

Null == [tag |-> "null"]
NoBook == "none"

\* The parser and the library before anything is handed to them.
NoCall == [op |-> "none", arg |-> Null, outcome |-> Null]

ParserIdle ==
    /\ archive = Null
    /\ parser = Null
    /\ call = NoCall

LibraryIdle ==
    /\ stores = [books |-> {}, files |-> {}]
    /\ transactions = <<>>
    /\ books = <<>>

\* useEPUB before any call: useState(null), useState(0), useState(false).
EpubIdle ==
    epub = [bookId |-> NoBook, book |-> NoBook, currentChapter |-> 0,
            chapterContent |-> Null, loading |-> FALSE, error |-> Null,
            inFlight |-> EmptyBag, calls |-> 0]

\* A chapter of the spine as getChapter sees it: it throws ("fail"), it
\* resolves with content "" ("empty"), or it resolves with content that
\* renders len units high at font size 1 ("ok"; len = 0 is markup with
\* nothing to render).
Ch(kind, len) == [kind |-> kind, len |-> len]

BookIds == {"A", "B", "C", "D", "E"}

Spine(b) ==
    CASE b = "A" -> <<Ch("ok", 1), Ch("ok", 3)>>
      [] b = "B" -> <<Ch("ok", 2), Ch("empty", 0), Ch("ok", 0)>>
      [] b = "C" -> <<Ch("ok", 1), Ch("fail", 0), Ch("ok", 2)>>
      [] b = "D" -> <<>>
      [] b = "E" -> <<Ch("ok", 0), Ch("ok", 2)>>
      [] OTHER -> <<>>

FontSizes == {1, 2}
ViewportHeights == {119, 120, 121, 122, 123}

Settings(f, h) == [fontSize |-> f, height |-> h]

Max(a, b) == IF a >= b THEN a ELSE b
Min(a, b) == IF a <= b THEN a ELSE b

\* Math.ceil(a / b) for integers a >= 0 and b # 0.
Ceil(a, b) == IF b > 0 THEN (a + b - 1) \div b ELSE 0 - (a \div (0 - b))

(***************************************************************************)
(* PaginationEngine.                                                       *)
(***************************************************************************)
NewEngine(b, rs) ==
    [book |-> b, rs |-> rs, pageMap |-> <<>>, totalPages |-> 0,
     measurementContainer |-> FALSE, pc |-> "new", chapterIndex |-> 0,
     currentPage |-> 1, result |-> Null]

\* What calculateAllPages returns: totalPages, pageMap, and whether
\* getPageInfo is the lookup into the engine (live) or () => null.
Result(tp, pm, live) == [tag |-> "result", totalPages |-> tp, pageMap |-> pm, live |-> live]

createMeasurementContainer(e) == [e EXCEPT !.measurementContainer = TRUE]

cleanupMeasurementContainer(e) == [e EXCEPT !.measurementContainer = FALSE]

pageHeightOf(rs) == rs.height - ControlsAllowance

\* container.scrollHeight once the chapter is rendered at the font size.
scrollHeight(ch, rs) == ch.len * rs.fontSize

\* Math.ceil(contentHeight / pageHeight) is Infinity.
Unbounded(contentHeight, pageHeight) == pageHeight = 0 /\ contentHeight > 0

\* A faulty variant of pagesInChapter: Math.floor(h / ph) + 1.
pagesInChapterFloor(contentHeight, pageHeight) ==
    IF pageHeight = 0 THEN 0
    ELSE Max(1, (0 - Ceil(contentHeight, 0 - pageHeight)) + 1)

\* The number of times the inner loop runs: Math.max(1, Math.ceil(h / ph)),
\* where 0 / 0 is NaN and pageInChapter < NaN is false.
pagesInChapter(contentHeight, pageHeight) ==
    IF pageHeight = 0 THEN 0
    ELSE Max(1, Ceil(contentHeight, pageHeight))

\* A faulty variant of PushPages: currentPage++ is missing from the loop.
PushPagesNoIncrement(currentPageNo, chapterIndex, n, pageHeight) ==
    [k \in 1..n |->
        [pageNumber |-> currentPageNo,
         chapterIndex |-> chapterIndex,
         pageInChapter |-> k - 1,
         startOffset |-> (k - 1) * pageHeight,
         endOffset |-> k * pageHeight]]

\* The entries the inner loop pushes for one chapter.
PushPages(currentPageNo, chapterIndex, n, pageHeight) ==
    [k \in 1..n |->
        [pageNumber |-> currentPageNo + (k - 1),
         chapterIndex |-> chapterIndex,
         pageInChapter |-> k - 1,
         startOffset |-> (k - 1) * pageHeight,
         endOffset |-> k * pageHeight]]

\* The loop has run past the last chapter: totalPages, cleanup, return.
Finish(e) ==
    LET tp == e.currentPage - 1
        f == [cleanupMeasurementContainer(e) EXCEPT !.totalPages = tp]
    IN [f EXCEPT !.pc = "returned", !.result = Result(tp, f.pageMap, TRUE)]

\* A faulty variant of Caught: the pages measured so far are returned.
CaughtPartial(e) ==
    [cleanupMeasurementContainer(e) EXCEPT
        !.pc = "returned", !.result = Result(e.currentPage - 1, e.pageMap, TRUE)]

\* A faulty variant of Caught: the measurement container is left in place.
CaughtNoCleanup(e) ==
    [e EXCEPT !.pc = "returned", !.result = Result(0, <<>>, FALSE)]

\* The catch block: cleanup, return {totalPages: 0, pageMap: []}.
Caught(e) ==
    [cleanupMeasurementContainer(e) EXCEPT
        !.pc = "returned", !.result = Result(0, <<>>, FALSE)]

\* The loop head after chapterIndex++ : the next await or the end.
LoopHead(e) ==
    IF e.chapterIndex < Len(Spine(e.book)) THEN [e EXCEPT !.pc = "await"] ELSE Finish(e)

\* A faulty variant of calculateAllPagesBegin: `this.pageMap = []` is missing.
calculateAllPagesBeginKeepMap(e) ==
    IF e.book = NoBook \/ Len(Spine(e.book)) = 0
    THEN [e EXCEPT !.pc = "returned", !.result = Result(0, <<>>, FALSE)]
    ELSE LoopHead([createMeasurementContainer(e) EXCEPT
                      !.currentPage = 1, !.chapterIndex = 0])

\* calculateAllPages up to its first await.
calculateAllPagesBegin(e) ==
    IF e.book = NoBook \/ Len(Spine(e.book)) = 0
    THEN [e EXCEPT !.pc = "returned", !.result = Result(0, <<>>, FALSE)]
    ELSE LoopHead([createMeasurementContainer(e) EXCEPT
                      !.pageMap = <<>>, !.currentPage = 1, !.chapterIndex = 0])

\* book.getChapter(chapterIndex) has settled: one iteration of the outer loop.
calculateAllPagesChapter(e) ==
    LET ch == Spine(e.book)[e.chapterIndex + 1]
        pageHeight == pageHeightOf(e.rs)
        contentHeight == scrollHeight(ch, e.rs)
        n == pagesInChapter(contentHeight, pageHeight)
    IN CASE ch.kind = "fail" -> Caught(e)
         [] ch.kind = "empty" -> LoopHead([e EXCEPT !.chapterIndex = @ + 1])
         [] ch.kind = "ok" /\ Unbounded(contentHeight, pageHeight) ->
                [e EXCEPT !.pc = "hung"]
         [] OTHER ->
                LoopHead([e EXCEPT
                    !.pageMap = @ \o PushPages(e.currentPage, e.chapterIndex, n, pageHeight),
                    !.currentPage = @ + n,
                    !.chapterIndex = @ + 1])

\* A faulty variant of getPageInfo: pageMap[pageNum] on the 0-based array.
getPageInfoOffByOne(r, pageNum) ==
    IF ~r.live \/ pageNum < 1 \/ pageNum > r.totalPages THEN Null
    ELSE r.pageMap[IF pageNum < r.totalPages THEN pageNum + 1 ELSE pageNum]

\* result.getPageInfo(pageNum)
getPageInfo(r, pageNum) ==
    IF ~r.live \/ pageNum < 1 \/ pageNum > r.totalPages THEN Null
    ELSE r.pageMap[pageNum]

(***************************************************************************)
(* EngineSpec: one engine, one pass.                                       *)
(***************************************************************************)
AllSettings == {Settings(f, h) : f \in FontSizes, h \in ViewportHeights}

EngineIdle ==
    /\ book = NoBook
    /\ renderSettings = Settings(1, 122)
    /\ currentPage = 1
    /\ totalPages = 0
    /\ pageContent = Null
    /\ paginationData = Null
    /\ calculating = FALSE
    /\ passes = EmptyBag
    /\ loads = EmptyBag
    /\ events = 0

EngineInit ==
    /\ eng \in {NewEngine(b, rs) : b \in BookIds \cup {NoBook}, rs \in AllSettings}
    /\ earlier = Null
    /\ EngineIdle
    /\ ParserIdle
    /\ LibraryIdle
    /\ EpubIdle

EngineCall ==
    /\ eng.pc = "new"
    /\ eng' = calculateAllPagesBegin(eng)
    /\ UNCHANGED <<earlier, hookVars, parserVars, libraryVars, epubVars>>

EngineChapter ==
    /\ eng.pc = "await"
    /\ eng' = calculateAllPagesChapter(eng)
    /\ UNCHANGED <<earlier, hookVars, parserVars, libraryVars, epubVars>>

\* calculateAllPages is called once more on the engine that has returned.
EngineCallAgain ==
    /\ eng.pc = "returned"
    /\ earlier = Null
    /\ earlier' = eng.result
    /\ eng' = calculateAllPagesBegin(eng)
    /\ UNCHANGED <<hookVars, parserVars, libraryVars, epubVars>>

\* calculatePages runs again for the same book and renderSettings:
\* new PaginationEngine(book, renderSettings), then calculateAllPages.
EngineRenew ==
    /\ eng.pc = "returned"
    /\ earlier = Null
    /\ earlier' = eng.result
    /\ eng' = calculateAllPagesBegin(NewEngine(eng.book, eng.rs))
    /\ UNCHANGED <<hookVars, parserVars, libraryVars, epubVars>>

EngineNext == EngineCall \/ EngineChapter \/ EngineCallAgain \/ EngineRenew

EngineSpec == EngineInit /\ [][EngineNext]_vars

(***************************************************************************)
(* Claims about one pagination pass (EngineSpec).                          *)
(***************************************************************************)
Returned == eng.pc = "returned"
ReturnedNormally == Returned /\ eng.result.live

\* The entries of a returned page map that belong to chapter ci.
EntriesOf(pm, ci) == {k \in 1..Len(pm) : pm[k].chapterIndex = ci}

\* (chapterIndex, pageInChapter) of x is lexicographically before that of y.
LexBefore(x, y) ==
    \/ x.chapterIndex < y.chapterIndex
    \/ x.chapterIndex = y.chapterIndex /\ x.pageInChapter < y.pageInChapter

\* C1: after a completed pass the k-th entry of the page map has
\* pageNumber k, there are exactly totalPages entries, and pageNumber
\* strictly increases with (chapterIndex, pageInChapter).
C1_Contiguous ==
    Returned =>
        LET pm == eng.result.pageMap
        IN /\ Len(pm) = eng.result.totalPages
           /\ \A k \in 1..Len(pm) : pm[k].pageNumber = k
           /\ \A j, k \in 1..Len(pm) :
                 (pm[j].pageNumber < pm[k].pageNumber) <=> LexBefore(pm[j], pm[k])

C1_Witness ==
    /\ ReturnedNormally
    /\ eng.result.totalPages >= 4
    /\ \E j, k \in 1..Len(eng.result.pageMap) :
          /\ eng.result.pageMap[j].chapterIndex # eng.result.pageMap[k].chapterIndex
          /\ eng.result.pageMap[k].pageInChapter > 0

\* C2: a pass that returns normally has recorded at least one page for
\* every chapter index of the spine, a chapter with empty content included.
C2_EveryChapterHasPage ==
    ReturnedNormally =>
        \A ci \in 0..(Len(Spine(eng.book)) - 1) :
            EntriesOf(eng.result.pageMap, ci) # {}

\* The number of pages the k-th chapter before c contributed, read off the map.
RECURSIVE PagesBefore(_, _)
PagesBefore(pm, c) ==
    IF c <= 0 THEN 0
    ELSE Cardinality(EntriesOf(pm, c - 1)) + PagesBefore(pm, c - 1)

\* C3: getPageInfo(n), 1 <= n <= totalPages, is the descriptor with
\* n = 1 + (pages of all chapters before chapterIndex) + pageInChapter;
\* chapters of 1 and 3 pages give 4 pages, and page 2 is (chapter 1, 0).
C3_PageInfo ==
    /\ ReturnedNormally =>
          \A n \in 1..eng.result.totalPages :
              LET info == getPageInfo(eng.result, n)
              IN /\ info # Null
                 /\ n = 1 + PagesBefore(eng.result.pageMap, info.chapterIndex)
                          + info.pageInChapter
    /\ (Returned /\ eng.book = "A" /\ eng.rs.fontSize = 1 /\ pageHeightOf(eng.rs) = 1) =>
          /\ eng.result.totalPages = 4
          /\ getPageInfo(eng.result, 2).chapterIndex = 1
          /\ getPageInfo(eng.result, 2).pageInChapter = 0

C3_Witness ==
    /\ ReturnedNormally /\ eng.book = "A" /\ eng.rs.fontSize = 1
    /\ pageHeightOf(eng.rs) = 1 /\ eng.result.totalPages = 4

\* max(1, ceil(h / ph)) stated without the division: the least n >= 1
\* with n * ph >= h when ph > 0, and 1 when ph < 0 (the quotient is <= 0).
LeastPages(h, ph) ==
    IF ph > 0
    THEN CHOOSE n \in 1..(h + 1) : n * ph >= h /\ (n = 1 \/ (n - 1) * ph < h)
    ELSE 1

\* C4: where contentHeight / pageHeight is defined (pageHeight # 0) a
\* paginated chapter has max(1, ceil(contentHeight / pageHeight)) pages,
\* and a chapter exactly pageHeight high has 1 page.
C4_PagesPerChapter ==
    (ReturnedNormally /\ pageHeightOf(eng.rs) # 0) =>
        \A ci \in 0..(Len(Spine(eng.book)) - 1) :
            LET ch == Spine(eng.book)[ci + 1]
                h == scrollHeight(ch, eng.rs)
                count == Cardinality(EntriesOf(eng.result.pageMap, ci))
            IN ch.kind = "ok" =>
                 /\ count = LeastPages(h, pageHeightOf(eng.rs))
                 /\ (h = pageHeightOf(eng.rs) => count = 1)

C4_Witness ==
    /\ ReturnedNormally
    /\ \E ci \in 0..(Len(Spine(eng.book)) - 1) :
          /\ Spine(eng.book)[ci + 1].kind = "ok"
          /\ scrollHeight(Spine(eng.book)[ci + 1], eng.rs) = pageHeightOf(eng.rs)
          /\ pageHeightOf(eng.rs) > 0
          /\ Cardinality(EntriesOf(eng.result.pageMap, ci)) = 1

\* Some chapter of the engine's book cannot be loaded.
SomeChapterFails ==
    eng.book # NoBook /\ \E k \in 1..Len(Spine(eng.book)) : Spine(eng.book)[k].kind = "fail"

\* C11: when a chapter of the book fails to load, the pass still returns
\* its page map: the failing chapter has no pages, and every chapter that
\* loads and renders has the pages its height asks for.
C11_FailedChapterSkipped ==
    (Returned /\ SomeChapterFails) =>
        /\ eng.result.live
        /\ \A ci \in 0..(Len(Spine(eng.book)) - 1) :
              LET ch == Spine(eng.book)[ci + 1]
                  count == Cardinality(EntriesOf(eng.result.pageMap, ci))
              IN /\ ch.kind = "fail" => count = 0
                 /\ ch.kind = "ok" =>
                        count = pagesInChapter(scrollHeight(ch, eng.rs), pageHeightOf(eng.rs))

\* There is no usable book: no book at all, or a book without spine items.
NoUsableBook == eng.book = NoBook \/ Len(Spine(eng.book)) = 0

PageNums == (0 - 1)..5

Mapping(r) ==
    [k \in 1..Len(r.pageMap) |->
        <<r.pageMap[k].pageNumber, r.pageMap[k].chapterIndex, r.pageMap[k].pageInChapter>>]

\* C19: a second pass for the same book and renderSettings, on the same
\* engine or on a new one, returns the totalPages and the mapping of the
\* first.
C19_Idempotent ==
    (Returned /\ earlier # Null) =>
        /\ eng.result.totalPages = earlier.totalPages
        /\ Mapping(eng.result) = Mapping(earlier)
        /\ \A n \in PageNums : getPageInfo(eng.result, n) = getPageInfo(earlier, n)

C19_Witness ==
    /\ Returned
    /\ earlier # Null
    /\ earlier.totalPages >= 3
    /\ eng.totalPages = earlier.totalPages
    /\ eng.result.live

\* C23: whenever calculateAllPages has returned, through its normal end or
\* through its catch block, the measurement container is out of the
\* document and the engine's measurementContainer is null.
C23_ContainerRemoved == Returned => ~eng.measurementContainer

\* A pass over a book with a failing chapter has returned through the catch
\* block, after its container was created.
C23_Witness ==
    /\ Returned
    /\ SomeChapterFails
    /\ ~eng.result.live
    /\ ~eng.measurementContainer

\* C29: calculateAllPages terminates for every viewport height, those of
\* 120 pixels or less included: no pass stays in its page loop for ever.
C29_Terminates == eng.pc # "hung"

\* PageView: const controlsHeight = 60.
PageViewControlsHeight == 60

\* PageView's pageHeight, the height of the frame the page content is
\* placed in: window.innerHeight - controlsHeight.
pageViewPageHeight(innerHeight) == innerHeight - PageViewControlsHeight

\* C25: the page height the engine paginates with is the height of the
\* frame PageView displays the page in, for every viewport height.
C25_SameHeight ==
    Returned => pageHeightOf(eng.rs) = pageViewPageHeight(eng.rs.height)

(***************************************************************************)
(* usePagination and the Reader effects that drive it.                     *)
(***************************************************************************)
HookBooks == {"E", "C"}
HookFontSizes == {1, 2}
HookHeights == {122}

\* chapter.content of the chapter object book.getChapter(chapterIndex)
\* resolves to: the chapter's whole body.
chapterContent(b, chapterIndex) ==
    [tag |-> "content", book |-> b, chapterIndex |-> chapterIndex]

\* A DOM element as getPageContent uses it: its own inline style and the
\* markup of its children.
Element(style, inner) == [style |-> style, inner |-> inner]

\* element.innerHTML: the children's markup; the element's own style is
\* not part of it.
innerHTML(el) == el.inner

\* A faulty variant of innerHTML: the element's own style is serialised
\* with its children (what outerHTML would give).
innerHTMLWithStyle(el) == el

\* scrollHeight of an element that was never attached to the document.
detachedScrollHeight(el) == 0

\* engine.getPageContent(pageInfo) once book.getChapter has settled.  The
\* temporary div is never attached to the document, so its scrollHeight
\* is 0; the clone carries the clipping style, and what is returned is
\* the clone's innerHTML.
getPageContent(b, rs, pageInfo) ==
    IF pageInfo = Null \/ b = NoBook THEN Null
    ELSE LET ch == Spine(b)[pageInfo.chapterIndex + 1]
             content == chapterContent(b, pageInfo.chapterIndex)
             tempDiv == Element(Null, content)
             contentHeight == detachedScrollHeight(tempDiv)
             pageHeight == pageHeightOf(rs)
             startOffset == pageInfo.pageInChapter * pageHeight
             clonedDiv == Element([top |-> 0 - startOffset, height |-> pageHeight],
                                  tempDiv.inner)
         IN IF ch.kind # "ok" THEN Null
            ELSE IF pageInfo.pageInChapter = 0 /\ contentHeight <= pageHeight
                 THEN content
                 ELSE innerHTML(clonedDiv)

\* C24: getPageContent returns the whole chapter body exactly for a page
\* that is the only page of its chapter, and two different pages of the
\* same chapter never get the same content.
C24_PageContent ==
    ReturnedNormally =>
        LET pm == eng.result.pageMap
            contentOf(k) == getPageContent(eng.book, eng.rs, pm[k])
        IN /\ \A k \in 1..Len(pm) :
                 (contentOf(k) = chapterContent(eng.book, pm[k].chapterIndex))
                     <=> (Cardinality(EntriesOf(pm, pm[k].chapterIndex)) = 1)
           /\ \A j, k \in 1..Len(pm) :
                 (j # k /\ pm[j].chapterIndex = pm[k].chapterIndex)
                     => contentOf(j) # contentOf(k)

\* {...result, engine}
PaginationData(r, b, rs) == [tag |-> "pd", result |-> r, book |-> b, rs |-> rs]

\* A calculatePages invocation: its closure (book, renderSettings,
\* currentPage), its engine, and where it is suspended.
NewPass(b, rs, cp) ==
    [book |-> b, rs |-> rs, currentPage |-> cp,
     eng |-> calculateAllPagesBegin(NewEngine(b, rs)),
     pc |-> "calc", info |-> Null, first |-> FALSE]

\* The tab is inside the unbounded inner loop of some pass.
Hung == \E p \in BagToSet(passes) : p.eng.pc = "hung"

Add(bag, x) == bag (+) SetToBag({x})
Remove(bag, x) == bag (-) SetToBag({x})
Replace(bag, x, y) == Add(Remove(bag, x), y)

\* calculatePages between `await engine.calculateAllPages()` and its next
\* await: setPaginationData, setTotalPages, and the choice of the page to
\* show.  The pass as it goes on, or Null when it has reached `finally`.
AfterCalculate(p) ==
    LET result == p.eng.result
        keep == p.currentPage <= result.totalPages /\ result.totalPages > 0
        pageInfo == IF keep THEN getPageInfo(result, p.currentPage)
                    ELSE getPageInfo(result, 1)
    IN IF result.totalPages > 0 /\ pageInfo # Null
       THEN [p EXCEPT !.pc = "content", !.info = pageInfo, !.first = ~keep]
       ELSE Null

\* The render that follows a handler's state updates, and the Reader
\* effect on [book, calculatePages]: calculatePages is a new function when
\* book, renderSettings or currentPage changed, and is then called.  A call
\* whose engine returns without awaiting a chapter (no spine) goes on to
\* its `finally` in the same turn.
Commit(b, rs, cp, tp, content, pd, calc, ps, ls, changed) ==
    LET p == NewPass(b, rs, cp)
    IN /\ book' = b
       /\ renderSettings' = rs
       /\ currentPage' = cp
       /\ pageContent' = content
       /\ loads' = ls
       /\ IF changed /\ b # NoBook
          THEN IF p.eng.pc = "returned"
               THEN /\ paginationData' = PaginationData(p.eng.result, b, rs)
                    /\ totalPages' = p.eng.result.totalPages
                    /\ calculating' = FALSE
                    /\ passes' = ps
               ELSE /\ paginationData' = pd
                    /\ totalPages' = tp
                    /\ calculating' = TRUE
                    /\ passes' = Add(ps, p)
          ELSE /\ paginationData' = pd
               /\ totalPages' = tp
               /\ calculating' = calc
               /\ passes' = ps
       /\ UNCHANGED <<eng, earlier, parserVars, libraryVars, epubVars>>

Init ==
    /\ eng = NewEngine(NoBook, Settings(1, 122))
    /\ earlier = Null
    /\ ParserIdle
    /\ LibraryIdle
    /\ EpubIdle
    /\ book = NoBook
    /\ renderSettings \in {Settings(f, h) : f \in HookFontSizes, h \in HookHeights}
    /\ currentPage = 1
    /\ totalPages = 0
    /\ pageContent = Null
    /\ paginationData = Null
    /\ calculating = FALSE
    /\ passes = EmptyBag
    /\ loads = EmptyBag
    /\ events = 0

\* Reader's load effect: loadParsedBook(bookId, parsedData) -> setBook.
LoadBook(b) ==
    /\ ~Hung
    /\ events < MaxEvents
    /\ events' = events + 1
    /\ b # book
    /\ Commit(b, renderSettings, currentPage, totalPages, pageContent,
              paginationData, calculating, passes, loads, TRUE)

\* SettingsSidebar: onFontSizeChange -> setFontSize.
SetFontSize(f) ==
    /\ ~Hung
    /\ events < MaxEvents
    /\ events' = events + 1
    /\ f # renderSettings.fontSize
    /\ Commit(book, [renderSettings EXCEPT !.fontSize = f], currentPage, totalPages,
              pageContent, paginationData, calculating, passes, loads, TRUE)

\* Reader's resize listener: setViewport makes a new viewport object,
\* so renderSettings is a new object whatever the size.
Resize(h) ==
    /\ ~Hung
    /\ events < MaxEvents
    /\ events' = events + 1
    /\ Commit(book, [renderSettings EXCEPT !.height = h], currentPage, totalPages,
              pageContent, paginationData, calculating, passes, loads, TRUE)

GoToArgs == (0 - 1)..MaxGoTo

\* loadPage(pageNumber) up to its await: the loads in flight after it.
loadPage(pageNumber) ==
    IF paginationData = Null \/ pageNumber < 1 \/ pageNumber > totalPages
    THEN loads
    ELSE LET pageInfo == getPageInfo(paginationData.result, pageNumber)
         IN IF pageInfo = Null THEN loads
            ELSE Add(loads, [pageNumber |-> pageNumber, info |-> pageInfo,
                             pd |-> paginationData])

\* A faulty variant of targetPage: Math.max(1, ...) is missing.
targetPageNoFloor(pageNumber) == Min(pageNumber, totalPages)

\* Math.max(1, Math.min(pageNumber, totalPages))
targetPage(pageNumber) == Max(1, Min(pageNumber, totalPages))

\* goToPage(pageNumber): the loads in flight after it.
goToPage(pageNumber) ==
    IF targetPage(pageNumber) # currentPage THEN loadPage(targetPage(pageNumber)) ELSE loads

\* A faulty variant of nextPage: it asks for the page before the current one.
nextPageBackwards == IF currentPage < totalPages THEN goToPage(currentPage - 1) ELSE loads

nextPage == IF currentPage < totalPages THEN goToPage(currentPage + 1) ELSE loads

prevPage == IF currentPage > 1 THEN goToPage(currentPage - 1) ELSE loads

\* A navigation handler ran: nothing but the loads in flight can change.
Navigate(ls) ==
    /\ ~Hung
    /\ events < MaxEvents
    /\ events' = events + 1
    /\ loads' = ls
    /\ UNCHANGED <<eng, earlier, book, renderSettings, currentPage, totalPages,
                   pageContent, paginationData, calculating, passes,
                   parserVars, libraryVars, epubVars>>

GoToPage(n) ==
    Navigate(goToPage(n))

NextPage ==
    Navigate(nextPage)

PrevPage ==
    Navigate(prevPage)

\* loadPage after its await: setPageContent, setCurrentPage.
LoadPageDone(l) ==
    /\ ~Hung
    /\ UNCHANGED events
    /\ BagIn(l, loads)
    /\ LET content == getPageContent(l.pd.book, l.pd.rs, l.info)
       IN Commit(book, renderSettings, l.pageNumber, totalPages, content,
                    paginationData, calculating, passes, Remove(loads, l),
                    l.pageNumber # currentPage)

\* A pass's book.getChapter settles: one chapter of calculateAllPages
\* and, when that was the last one (or it threw), calculatePages up to
\* its next await.
PassChapter(p0) ==
    /\ ~Hung
    /\ UNCHANGED events
    /\ BagIn(p0, passes)
    /\ p0.pc = "calc"
    /\ p0.eng.pc = "await"
    /\ LET p == [p0 EXCEPT !.eng = calculateAllPagesChapter(@)]
           q == AfterCalculate(p)
       IN IF p.eng.pc # "returned"
          THEN Commit(book, renderSettings, currentPage, totalPages, pageContent,
                      paginationData, calculating, Replace(passes, p0, p),
                      loads, FALSE)
          ELSE Commit(book, renderSettings, currentPage, p.eng.result.totalPages,
                      pageContent, PaginationData(p.eng.result, p.book, p.rs),
                      IF q = Null THEN FALSE ELSE calculating,
                      IF q = Null THEN Remove(passes, p0) ELSE Replace(passes, p0, q),
                      loads, FALSE)

\* calculatePages after `await engine.getPageContent(pageInfo)`:
\* setPageContent, setCurrentPage(1) on the second branch, and finally
\* setCalculating(false).
PassContent(p) ==
    /\ ~Hung
    /\ UNCHANGED events
    /\ BagIn(p, passes)
    /\ p.pc = "content"
    /\ LET content == getPageContent(p.book, p.rs, p.info)
           cp == IF p.first THEN 1 ELSE currentPage
       IN Commit(book, renderSettings, cp, totalPages, content, paginationData,
                    FALSE, Remove(passes, p), loads, cp # currentPage)

Next ==
    \/ NextPage
    \/ PrevPage
    \/ \E n \in GoToArgs : GoToPage(n)
    \/ \E b \in HookBooks : LoadBook(b)
    \/ \E f \in HookFontSizes : SetFontSize(f)
    \/ \E h \in HookHeights : Resize(h)
    \/ \E l \in BagToSet(loads) : LoadPageDone(l)
    \/ \E p \in BagToSet(passes) : PassChapter(p)
    \/ \E p \in BagToSet(passes) : PassContent(p)

Spec == Init /\ [][Next]_vars

(***************************************************************************)
(* Claims about the hook (Spec).                                           *)
(***************************************************************************)
\* n clamped into [lo, hi], for lo <= hi.
ClampInto(n, lo, hi) == IF n < lo THEN lo ELSE IF n > hi THEN hi ELSE n

\* This step starts exactly one page load, for page t, from the page data
\* the hook holds, and changes nothing else of the hook's state.
StartsLoadOf(t) ==
    /\ \E l \in BagToSet(loads') :
          /\ l.pageNumber = t
          /\ l.pd = paginationData
          /\ loads' = Add(loads, l)
    /\ UNCHANGED <<book, renderSettings, currentPage, totalPages, pageContent,
                   paginationData, calculating, passes>>

\* This step starts no page load and changes nothing of the hook's state.
NoEffect ==
    UNCHANGED <<book, renderSettings, currentPage, totalPages, pageContent,
                paginationData, calculating, passes, loads>>

\* C5: with pages to go to (totalPages >= 1), goToPage(n) does nothing when
\* n clamped into [1, totalPages] is the current page, and otherwise loads
\* the clamped page; the load, once done, makes it the current page.
C5_GoToPage ==
    [][ /\ \A n \in GoToArgs :
              (GoToPage(n) /\ totalPages >= 1) =>
                  IF ClampInto(n, 1, totalPages) = currentPage
                  THEN NoEffect
                  ELSE StartsLoadOf(ClampInto(n, 1, totalPages))
        /\ \A l \in BagToSet(loads) :
              LoadPageDone(l) => currentPage' = l.pageNumber
      ]_vars

\* A jump of two pages is under way, or has been made: only goToPage does that.
C5_Witness ==
    /\ totalPages >= 3
    /\ \/ currentPage = 1 /\ \E l \in BagToSet(loads) : l.pageNumber = 3
       \/ currentPage = 3 /\ pageContent # Null /\ passes = EmptyBag /\ loads = EmptyBag

\* C6 as claimed: nextPage does nothing when currentPage = totalPages and
\* prevPage nothing when currentPage = 1; in every other state they load
\* the page after and the page before the current one.
C6_Original ==
    [][ /\ NextPage =>
              IF currentPage = totalPages THEN NoEffect
              ELSE StartsLoadOf(currentPage + 1)
        /\ PrevPage =>
              IF currentPage = 1 THEN NoEffect
              ELSE StartsLoadOf(currentPage - 1)
      ]_vars

\* C6 (amended): nextPage does nothing when currentPage >= totalPages and
\* otherwise loads currentPage + 1; prevPage does nothing when
\* currentPage = 1 or there are no pages, and otherwise loads
\* min(currentPage - 1, totalPages), which is currentPage - 1 whenever the
\* current page is within the book; a finished load makes its page current.
C6_NextPrev ==
    [][ /\ NextPage =>
              IF currentPage >= totalPages THEN NoEffect
              ELSE StartsLoadOf(currentPage + 1)
        /\ PrevPage =>
              IF currentPage = 1 \/ totalPages = 0 THEN NoEffect
              ELSE /\ StartsLoadOf(Min(currentPage - 1, totalPages))
                   /\ currentPage <= totalPages + 1 =>
                          StartsLoadOf(currentPage - 1)
        /\ \A l \in BagToSet(loads) :
              LoadPageDone(l) =>
                  /\ currentPage' = l.pageNumber
                  /\ pageContent' = getPageContent(l.pd.book, l.pd.rs, l.info)
      ]_vars

\* nextPage or prevPage has moved the reader to the middle page of three.
C6_Witness ==
    /\ totalPages = 3
    /\ currentPage = 2
    /\ pageContent # Null
    /\ loads = EmptyBag

\* The pass p reaches the `finally` of calculatePages in this step.
Finishes(p) ==
    \/ PassContent(p)
    \/ /\ PassChapter(p)
       /\ calculateAllPagesChapter(p.eng).pc = "returned"
       /\ AfterCalculate([p EXCEPT !.eng = calculateAllPagesChapter(@)]) = Null

\* The totalPages the pass p computed (known once its engine has returned).
NewTotal(p) ==
    IF p.eng.pc = "returned" THEN p.eng.result.totalPages
    ELSE calculateAllPagesChapter(p.eng).result.totalPages

\* C7: when a pass finishes, the current page is what it was if that is
\* <= the new totalPages, and page 1 otherwise.
C7_KeepOrFirst ==
    [][ \A p \in BagToSet(passes) :
            Finishes(p) =>
                currentPage' = IF currentPage <= NewTotal(p) THEN currentPage ELSE 1
      ]_vars

\* C8: while calculating, goToPage, nextPage and prevPage start no page
\* load from the page data of the previous pass.
C8_NoStaleNavigation ==
    [][ (calculating /\ (NextPage \/ PrevPage \/ \E n \in GoToArgs : GoToPage(n)))
            => NoEffect
      ]_vars

\* The pass p installs something in this step: its result (paginationData,
\* totalPages) after its last chapter, or its page content at its end.
Installs(p) ==
    \/ PassContent(p)
    \/ PassChapter(p) /\ calculateAllPagesChapter(p.eng).pc = "returned"

\* C9: a pass installs its totalPages, page map and page content only
\* while the book it was started for is still the book of the reader.
C9_NoStaleBook ==
    [][ \A p \in BagToSet(passes) : Installs(p) => p.book = book ]_vars

\* What a pass over book b at settings rs returns when nothing interferes.
RECURSIVE RunToEnd(_)
RunToEnd(e) == IF e.pc = "await" THEN RunToEnd(calculateAllPagesChapter(e)) ELSE e

ResultFor(b, rs) == RunToEnd(calculateAllPagesBegin(NewEngine(b, rs))).result

\* C10: once nothing is in flight, the totalPages and the page map the hook
\* holds for the book are those of a pass at the current renderSettings,
\* whatever the order in which overlapping passes finished.
C10_LatestSettingsWin ==
    (passes = EmptyBag /\ loads = EmptyBag /\ book # NoBook
        /\ paginationData # Null /\ paginationData.book = book)
        => /\ totalPages = ResultFor(book, renderSettings).totalPages
           /\ paginationData.result = ResultFor(book, renderSettings)

\* A page navigation step: goToPage, nextPage or prevPage, or the end of
\* the page load one of them started.
NavigationStep ==
    \/ NextPage
    \/ PrevPage
    \/ \E n \in GoToArgs : GoToPage(n)
    \/ \E l \in BagToSet(loads) : LoadPageDone(l)

\* C22: page navigation never starts a new pagination pass.
C22_NavigationStartsNoPass ==
    [][ NavigationStep =>
            \A p \in BagToSet(passes') : CopiesIn(p, passes') <= CopiesIn(p, passes)
      ]_vars

\* C27: calculating is true whenever at least one pass is in flight.
C27_CalculatingWhileInFlight == passes # EmptyBag => calculating

\* C28: once nothing is in flight and totalPages > 0, the current page is
\* in 1..totalPages and pageContent is the content of that page in the
\* installed page map.
C28_QuiescentPage ==
    (passes = EmptyBag /\ loads = EmptyBag /\ totalPages > 0) =>
        /\ 1 <= currentPage /\ currentPage <= totalPages
        /\ paginationData # Null
        /\ pageContent = getPageContent(paginationData.book, paginationData.rs,
                                        getPageInfo(paginationData.result, currentPage))

\* The viewport heights the reader may be opened with when progress is
\* examined: a window of exactly the controls allowance, and a taller one.
LiveHeights == {ControlsAllowance, 122}

LiveInit ==
    /\ eng = NewEngine(NoBook, Settings(1, 122))
    /\ earlier = Null
    /\ ParserIdle
    /\ LibraryIdle
    /\ EpubIdle
    /\ book = NoBook
    /\ renderSettings \in {Settings(f, h) : f \in HookFontSizes, h \in LiveHeights}
    /\ currentPage = 1
    /\ totalPages = 0
    /\ pageContent = Null
    /\ paginationData = Null
    /\ calculating = FALSE
    /\ passes = EmptyBag
    /\ loads = EmptyBag
    /\ events = 0

\* Every awaited promise settles: a chapter load of a pass, the page
\* content of a pass, the page content of a page load.
PromisesSettle ==
    /\ WF_vars(\E p \in BagToSet(passes) : PassChapter(p))
    /\ WF_vars(\E p \in BagToSet(passes) : PassContent(p))
    /\ WF_vars(\E l \in BagToSet(loads) : LoadPageDone(l))

LiveSpec == LiveInit /\ [][Next]_vars /\ PromisesSettle

\* C21: every time calculating becomes true it becomes false again, also
\* when the pass throws, given that every chapter load terminates.
C21_CalculatingEnds == calculating ~> ~calculating

(***************************************************************************)
(* EPUBParser over ZipHandler, ContainerParser and OPFParser.  Strings are *)
(* sequences of tokens: a path is its segments and "/", an href may hold   *)
(* "#", the mimetype entry holds the media type, blanks and other text.    *)
(***************************************************************************)
MaxMimetype == 2        \* tokens in the mimetype entry
MaxItemrefs == 2        \* itemref elements in the spine of the package
MaxHref == 2            \* tokens of an href after its directory

SeqsUpTo(S, n) == UNION {[1..k -> S] : k \in 0..n}

Absent == [tag |-> "absent"]
File(content) == [tag |-> "file", content |-> content]

Error(name) == [tag |-> "error", error |-> name]
Ok(value) == [tag |-> "ok", value |-> value]

EpubMimetype == "application/epub+zip"
Whitespace == {" "}

RECURSIVE TrimStart(_)
TrimStart(s) == IF s # <<>> /\ Head(s) \in Whitespace THEN TrimStart(Tail(s)) ELSE s

RECURSIVE TrimEnd(_)
TrimEnd(s) ==
    IF s # <<>> /\ s[Len(s)] \in Whitespace THEN TrimEnd(SubSeq(s, 1, Len(s) - 1)) ELSE s

\* String.prototype.trim
trim(s) == TrimEnd(TrimStart(s))

\* s.lastIndexOf(t) + 1: 0 when t does not occur.
LastIndexOf(s, t) ==
    IF \E i \in 1..Len(s) : s[i] = t
    THEN CHOOSE i \in 1..Len(s) : s[i] = t /\ \A j \in (i + 1)..Len(s) : s[j] # t
    ELSE 0

\* path.substring(0, path.lastIndexOf('/'))
DirOf(path) == SubSeq(path, 1, LastIndexOf(path, "/") - 1)

\* href.split('#')[0]
SplitHash(href) ==
    IF \E i \in 1..Len(href) : href[i] = "#"
    THEN SubSeq(href, 1, (CHOOSE i \in 1..Len(href) :
                              href[i] = "#" /\ \A j \in 1..(i - 1) : href[j] # "#") - 1)
    ELSE href

MimetypePath == <<"mimetype">>
ContainerPath == <<"META-INF", "/", "container.xml">>

\* OPFParser.resolvePath
resolvePath(opfDir, href) == IF opfDir = <<>> THEN href ELSE opfDir \o <<"/">> \o href

\* The manifest items a package may declare, and the href attribute of each.
Ids == {"a", "b", "c"}

RawHref(id) ==
    CASE id = "a" -> <<"x">>
      [] id = "b" -> <<"x", "#", "y">>
      [] OTHER -> <<"y">>

\* The content documents every archive holds, next to its package document.
ChapterFiles == {<<"x">>, <<"y">>}

\* container.xml is modelled by the value of its full-path attribute (<<>>:
\* the regular expression does not match); the package document by whether
\* it is well-formed XML, its manifest items and its itemref idrefs.
Package(wellFormed, items, itemrefs) ==
    [wellFormed |-> wellFormed, items |-> items, itemrefs |-> itemrefs]

Mimetypes == {Absent} \cup {File(m) : m \in SeqsUpTo({" ", EpubMimetype, "x"}, MaxMimetype)}

Containers ==
    {Absent, File(<<>>), File(<<"content.opf">>), File(<<"OEBPS", "/", "content.opf">>)}

Packages ==
    {Absent, File(Package(FALSE, {}, <<>>))}
        \cup {File(Package(TRUE, items, itemrefs)) :
                 items \in {{"a", "b", "c"}, {"a", "b"}},
                 itemrefs \in SeqsUpTo(Ids, MaxItemrefs)}

Archive(readable, mimetype, container, package) ==
    [readable |-> readable, mimetype |-> mimetype, container |-> container,
     package |-> package]

Archives ==
    {Archive(TRUE, m, c, p) : m \in Mimetypes, c \in Containers, p \in Packages}
        \cup {Archive(FALSE, Absent, Absent, Absent)}

\* Where the archive keeps its package document and content documents.
PackagePath(a) ==
    IF a.container = Absent \/ a.container.content = <<>>
    THEN <<"content.opf">>
    ELSE a.container.content

\* JSZip: zip.file(path)
zipFile(a, path) ==
    IF path = MimetypePath THEN a.mimetype
    ELSE IF path = ContainerPath THEN a.container
    ELSE IF path = PackagePath(a) THEN a.package
    ELSE IF \E f \in ChapterFiles : path = resolvePath(DirOf(PackagePath(a)), f)
         THEN File(path)
         ELSE Absent

\* A faulty variant of loadFromBuffer: the mimetype is compared untrimmed.
loadFromBufferNoTrim(a) ==
    IF ~a.readable THEN Error("InvalidArchive")
    ELSE IF zipFile(a, MimetypePath) = Absent THEN Error("NoMimetype")
    ELSE IF zipFile(a, MimetypePath).content # <<EpubMimetype>>
         THEN Error("InvalidMimetype")
         ELSE Ok(TRUE)

\* ZipHandler.loadFromBuffer
loadFromBuffer(a) ==
    IF ~a.readable THEN Error("InvalidArchive")
    ELSE IF zipFile(a, MimetypePath) = Absent THEN Error("NoMimetype")
    ELSE IF trim(zipFile(a, MimetypePath).content) # <<EpubMimetype>>
         THEN Error("InvalidMimetype")
         ELSE Ok(TRUE)

\* ZipHandler.getTextFile
getTextFile(a, path) ==
    IF zipFile(a, path) = Absent THEN Error("FileNotFound")
    ELSE Ok(zipFile(a, path).content)

\* ZipHandler.getBinaryFile
getBinaryFile(a, path) ==
    IF zipFile(a, path) = Absent THEN Ok(Null)
    ELSE Ok([tag |-> "base64", of |-> zipFile(a, path).content])

\* A faulty variant of containerParse: a missing full-path falls back to a
\* default package path.
containerParseDefault(a) ==
    LET containerXml == getTextFile(a, ContainerPath)
    IN IF containerXml.tag = "error" THEN containerXml
       ELSE IF containerXml.value = <<>> THEN Ok(<<"content.opf">>)
       ELSE Ok(containerXml.value)

\* ContainerParser.parse: the opfPath.
containerParse(a) ==
    LET containerXml == getTextFile(a, ContainerPath)
    IN IF containerXml.tag = "error" THEN containerXml
       ELSE IF containerXml.value = <<>> THEN Error("NoOPFPath")
       ELSE Ok(containerXml.value)

\* OPFParser.extractManifest
extractManifest(package, opfDir) ==
    [id \in package.items |-> [id |-> id, href |-> resolvePath(opfDir, RawHref(id))]]

\* A faulty variant of extractSpine: order is the position of the itemref.
extractSpineByPosition(itemrefs, manifest) ==
    LET kept == SelectSeq([i \in 1..Len(itemrefs) |-> i],
                          LAMBDA i : itemrefs[i] \in DOMAIN manifest)
    IN [k \in 1..Len(kept) |->
           [id |-> itemrefs[kept[k]], href |-> manifest[itemrefs[kept[k]]].href,
            order |-> kept[k] - 1]]

RECURSIVE ExtractSpineFrom(_, _, _)
ExtractSpineFrom(itemrefs, manifest, spine) ==
    IF itemrefs = <<>> THEN spine
    ELSE ExtractSpineFrom(Tail(itemrefs), manifest,
             IF Head(itemrefs) \in DOMAIN manifest
             THEN Append(spine, [id |-> Head(itemrefs),
                                 href |-> manifest[Head(itemrefs)].href,
                                 order |-> Len(spine)])
             ELSE spine)

\* OPFParser.extractSpine
extractSpine(itemrefs, manifest) == ExtractSpineFrom(itemrefs, manifest, <<>>)

\* OPFParser.parse: {manifest, spine}.
opfParse(a, opfPath) ==
    LET opfContent == getTextFile(a, opfPath)
    IN IF opfContent.tag = "error" THEN opfContent
       ELSE IF ~opfContent.value.wellFormed THEN Error("OPFParseError")
       ELSE LET manifest == extractManifest(opfContent.value, DirOf(opfPath))
            IN Ok([manifest |-> manifest,
                   spine |-> extractSpine(opfContent.value.itemrefs, manifest)])

\* new EPUBParser()
NewParser ==
    [pc |-> "new", zip |-> FALSE, opfPath |-> <<>>, hasSpine |-> FALSE,
     manifest |-> <<>>, spine |-> <<>>, stages |-> <<>>, error |-> Null,
     returned |-> FALSE]

Failed(p, stage, outcome) ==
    [p EXCEPT !.pc = "failed", !.stages = Append(@, stage), !.error = outcome]

\* EPUBParser.getChapter
getChapter(p, a, index) ==
    IF ~p.hasSpine \/ index >= Len(p.spine) THEN Error("InvalidChapterIndex")
    ELSE IF index < 0 THEN Error("TypeError")
    ELSE LET spineItem == p.spine[index + 1]
             content == getTextFile(a, spineItem.href)
         IN IF content.tag = "error" THEN content
            ELSE Ok([tag |-> "chapter", index |-> index, content |-> content.value])

\* A faulty variant of findIndex: the spine item's href keeps its fragment.
findIndexUnstripped(spine, cleanHref) ==
    IF \E i \in 1..Len(spine) : spine[i].href = cleanHref
    THEN (CHOOSE i \in 1..Len(spine) :
              spine[i].href = cleanHref /\ \A j \in 1..(i - 1) : spine[j].href # cleanHref) - 1
    ELSE 0 - 1

RECURSIVE FindIndexFrom(_, _, _)
FindIndexFrom(spine, cleanHref, i) ==
    IF i >= Len(spine) THEN 0 - 1
    ELSE IF SplitHash(spine[i + 1].href) = cleanHref THEN i
    ELSE FindIndexFrom(spine, cleanHref, i + 1)

\* this.spine.findIndex(item => item.href.split('#')[0] === cleanHref)
findIndex(spine, cleanHref) == FindIndexFrom(spine, cleanHref, 0)

\* EPUBParser.getChapterByHref
getChapterByHref(p, a, href) ==
    IF ~p.hasSpine THEN Error("TypeError")
    ELSE LET spineIndex == findIndex(p.spine, SplitHash(href))
         IN IF spineIndex = 0 - 1 THEN Error("ChapterNotFound")
            ELSE getChapter(p, a, spineIndex)

ParserInit ==
    /\ archive \in Archives
    /\ parser = NewParser
    /\ call = NoCall
    /\ eng = NewEngine(NoBook, Settings(1, 122))
    /\ earlier = Null
    /\ EngineIdle
    /\ LibraryIdle
    /\ EpubIdle

\* parse, step 1: new ZipHandler().loadFromBuffer(buffer)
ParseOpen ==
    /\ parser.pc = "new"
    /\ LET opened == loadFromBuffer(archive)
       IN parser' = IF opened.tag = "error"
                    THEN [Failed(parser, "open", opened) EXCEPT !.zip = archive.readable]
                    ELSE [parser EXCEPT !.pc = "opened", !.zip = TRUE,
                                        !.stages = Append(@, "open")]
    /\ UNCHANGED <<archive, call, eng, earlier, hookVars, libraryVars, epubVars>>

\* parse, step 2: new ContainerParser(zipHandler).parse()
ParseContainer ==
    /\ parser.pc = "opened"
    /\ LET found == containerParse(archive)
       IN parser' = IF found.tag = "error" THEN Failed(parser, "container", found)
                    ELSE [parser EXCEPT !.pc = "located", !.opfPath = found.value,
                                        !.stages = Append(@, "container")]
    /\ UNCHANGED <<archive, call, eng, earlier, hookVars, libraryVars, epubVars>>

\* parse, step 3: new OPFParser(zipHandler, opfPath).parse()
ParseOPF ==
    /\ parser.pc = "located"
    /\ LET parsed == opfParse(archive, parser.opfPath)
       IN parser' = IF parsed.tag = "error" THEN Failed(parser, "package", parsed)
                    ELSE [parser EXCEPT !.pc = "packaged", !.hasSpine = TRUE,
                                        !.manifest = parsed.value.manifest,
                                        !.spine = parsed.value.spine,
                                        !.stages = Append(@, "package")]
    /\ UNCHANGED <<archive, call, eng, earlier, hookVars, libraryVars, epubVars>>

\* parse, steps 4 to 6 and the return of the book: navigation, CSS and
\* fonts are read by parsers that may throw.
ParseRest ==
    /\ parser.pc = "packaged"
    /\ \E ok \in BOOLEAN :
          parser' = IF ok
                    THEN [parser EXCEPT !.pc = "done", !.returned = TRUE,
                                        !.stages = Append(@, "rest")]
                    ELSE Failed(parser, "rest", Error("RestError"))
    /\ UNCHANGED <<archive, call, eng, earlier, hookVars, libraryVars, epubVars>>

Called(op, arg, outcome) ==
    /\ call' = [op |-> op, arg |-> arg, outcome |-> outcome]
    /\ UNCHANGED <<archive, parser, eng, earlier, hookVars, libraryVars, epubVars>>

ChapterIndexes == (0 - 1)..MaxItemrefs

TargetHrefs ==
    {dir \o h : dir \in {<<>>, <<"OEBPS", "/">>}, h \in SeqsUpTo({"x", "y", "#"}, MaxHref)}

ZipPaths ==
    {MimetypePath, ContainerPath, <<"content.opf">>, <<"x">>,
     <<"OEBPS", "/", "x">>, <<"cover.png">>}

\* book.getChapter(index)
GetChapter(index) ==
    /\ parser.returned
    /\ Called("getChapter", index, getChapter(parser, archive, index))

\* book.getChapterByHref(href)
GetChapterByHref(href) ==
    /\ parser.returned
    /\ Called("getChapterByHref", href, getChapterByHref(parser, archive, href))

\* zipHandler.getTextFile(path)
GetTextFile(path) ==
    /\ parser.zip
    /\ Called("getTextFile", path, getTextFile(archive, path))

\* zipHandler.getBinaryFile(path)
GetBinaryFile(path) ==
    /\ parser.zip
    /\ Called("getBinaryFile", path, getBinaryFile(archive, path))

ParserNext ==
    \/ ParseOpen
    \/ ParseContainer
    \/ ParseOPF
    \/ ParseRest
    \/ \E index \in ChapterIndexes : GetChapter(index)
    \/ \E href \in TargetHrefs : GetChapterByHref(href)
    \/ \E path \in ZipPaths : GetTextFile(path)
    \/ \E path \in ZipPaths : GetBinaryFile(path)

ParserSpec == ParserInit /\ [][ParserNext]_vars

(***************************************************************************)
(* Claims about the parser (ParserSpec).                                   *)
(***************************************************************************)
\* C13: spine[i].order = i for every index of the parsed spine, also when
\* itemrefs were skipped because their idref is not in the manifest.
C13_SpineOrder ==
    parser.hasSpine =>
        \A i \in 1..Len(parser.spine) : parser.spine[i].order = i - 1

\* The first itemref of the package was skipped and a later one was kept.
C13_Witness ==
    /\ parser.hasSpine
    /\ Len(parser.spine) >= 1
    /\ archive.package.content.itemrefs[1] \notin DOMAIN parser.manifest

\* C14: getChapter(i) with i < 0 or i >= spine.length fails with the
\* invalid-chapter-index error.
C14_InvalidIndex ==
    (call.op = "getChapter" /\ (call.arg < 0 \/ call.arg >= Len(parser.spine)))
        => call.outcome = Error("InvalidChapterIndex")

\* The spine items whose href without fragment is target without fragment.
Matches(spine, target) ==
    {i \in 1..Len(spine) : SplitHash(spine[i].href) = SplitHash(target)}

\* C15: getChapterByHref(href) is getChapter at the first spine index
\* whose fragment-stripped href is the fragment-stripped href, and fails
\* with chapter-not-found exactly when there is no such index.
C15_ByHref ==
    call.op = "getChapterByHref" =>
        LET matches == Matches(parser.spine, call.arg)
        IN IF matches = {}
           THEN call.outcome = Error("ChapterNotFound")
           ELSE LET first == CHOOSE i \in matches : \A j \in matches : i <= j
                IN /\ call.outcome = getChapter(parser, archive, first - 1)
                   /\ call.outcome # Error("ChapterNotFound")
                   /\ call.outcome.tag = "ok" => call.outcome.value.index = first - 1

\* An href with a fragment has loaded the second chapter of the spine.
C15_Witness ==
    /\ call.op = "getChapterByHref"
    /\ \E i \in 1..Len(call.arg) : call.arg[i] = "#"
    /\ call.outcome.tag = "ok"
    /\ call.outcome.value.index = 1

\* The mimetype entry is there and is the EPUB media type between blanks.
ExactlyEpub(m) ==
    /\ m # Absent
    /\ \E i \in 1..Len(m.content) :
          /\ m.content[i] = EpubMimetype
          /\ \A j \in 1..Len(m.content) : j # i => m.content[j] \in Whitespace

\* C16: opening a readable archive fails with the not-an-EPUB errors when
\* the mimetype entry is missing or, trimmed, is not the EPUB media type,
\* and succeeds when it is.
C16_Mimetype ==
    (parser.stages # <<>> /\ archive.readable) =>
        IF ExactlyEpub(archive.mimetype)
        THEN parser.zip /\ ~(parser.pc = "failed" /\ parser.stages = <<"open">>)
        ELSE /\ parser.pc = "failed"
             /\ parser.stages = <<"open">>
             /\ parser.error \in {Error("NoMimetype"), Error("InvalidMimetype")}

\* An archive whose mimetype entry has a blank around the media type is open.
C16_Witness ==
    /\ parser.pc = "opened"
    /\ Len(archive.mimetype.content) = 2

\* C17: getTextFile and getBinaryFile fail with the file-not-found error
\* for a path that is not in the archive.
C17_AbsentPath ==
    (call.op \in {"getTextFile", "getBinaryFile"} /\ zipFile(archive, call.arg) = Absent)
        => call.outcome = Error("FileNotFound")

StageOrder == <<"open", "container", "package", "rest">>

OpenFails == ~archive.readable \/ ~ExactlyEpub(archive.mimetype)

ContainerFails == archive.container = Absent \/ archive.container.content = <<>>

PackageFails == archive.package = Absent \/ ~archive.package.content.wellFormed

\* The parse call was rejected at the stage with the errors of that stage.
RejectedAt(stage, names) ==
    /\ parser.pc = "failed"
    /\ parser.stages = SubSeq(StageOrder, 1, Len(parser.stages))
    /\ parser.stages[Len(parser.stages)] = stage
    /\ parser.error \in {Error(n) : n \in names}
    /\ ~parser.returned

\* C18: parse runs open, container, package in this order; when one of
\* them fails parse is rejected with its error, no later stage has run,
\* and no book is returned.
C18_LoadChain ==
    /\ parser.stages = SubSeq(StageOrder, 1, Len(parser.stages))
    /\ (Len(parser.stages) >= 1 /\ OpenFails) =>
          RejectedAt("open", {"InvalidArchive", "NoMimetype", "InvalidMimetype"})
    /\ (Len(parser.stages) >= 2 /\ ContainerFails) =>
          RejectedAt("container", {"FileNotFound", "NoOPFPath"})
    /\ (Len(parser.stages) >= 3 /\ PackageFails) =>
          RejectedAt("package", {"FileNotFound", "OPFParseError"})
    /\ parser.returned =>
          /\ ~OpenFails /\ ~ContainerFails /\ ~PackageFails
          /\ parser.stages = StageOrder
          /\ parser.hasSpine

\* The package stage has failed after the archive and the container were read.
C18_Witness ==
    /\ parser.pc = "failed"
    /\ parser.stages = <<"open", "container", "package">>
    /\ parser.error = Error("OPFParseError")

(***************************************************************************)
(* Path resolution: EPUBParser.resolveResourcePath, which getChapter uses  *)
(* for the src of an image, and FontHandler.resolvePath, which the font    *)
(* and CSS handling uses for a url().  Paths are sequences of tokens:      *)
(* segments, "/", ".." and ".".                                            *)
(***************************************************************************)
MaxRef == 3             \* tokens of a relative reference

\* s.startsWith(prefix)
startsWith(s, prefix) ==
    Len(s) >= Len(prefix) /\ SubSeq(s, 1, Len(prefix)) = prefix

\* s.replace(pattern, replacement) with a string pattern: the first
\* occurrence only.
replace(s, pattern, replacement) ==
    LET at == {i \in 1..(Len(s) - Len(pattern) + 1) :
                  SubSeq(s, i, i + Len(pattern) - 1) = pattern}
    IN IF at = {} THEN s
       ELSE LET i == CHOOSE i \in at : \A j \in at : i <= j
            IN SubSeq(s, 1, i - 1) \o replacement \o SubSeq(s, i + Len(pattern), Len(s))

\* FontHandler.resolvePath
fontResolvePath(basePath, relativePath) ==
    LET baseDir == DirOf(basePath)
    IN IF startsWith(relativePath, <<"..", "/">>)
       THEN LET parentDir == DirOf(baseDir)
            IN replace(relativePath, <<"..", "/">>,
                       IF parentDir # <<>> THEN parentDir \o <<"/">> ELSE <<>>)
       ELSE IF startsWith(relativePath, <<"/">>)
       THEN SubSeq(relativePath, 2, Len(relativePath))
       ELSE IF startsWith(relativePath, <<".", "/">>)
       THEN LET cleanPath == replace(relativePath, <<".", "/">>, <<>>)
            IN IF baseDir # <<>> THEN baseDir \o <<"/">> \o cleanPath ELSE cleanPath
       ELSE IF baseDir # <<>> THEN baseDir \o <<"/">> \o relativePath
            ELSE relativePath

\* EPUBParser.resolveResourcePath
resolveResourcePath(chapterPath, resourcePath) ==
    LET chapterDir == DirOf(chapterPath)
    IN IF chapterDir = <<>> THEN resourcePath
       ELSE IF startsWith(resourcePath, <<"..", "/">>)
       THEN replace(resourcePath, <<"..", "/">>, <<>>)
       ELSE chapterDir \o <<"/">> \o resourcePath

\* The hrefs of the chapter (or style sheet) a reference is found in.
BasePaths ==
    {<<"ch">>, <<"OEBPS", "/", "ch">>, <<"OEBPS", "/", "text", "/", "ch">>}

\* The relative references.
References == SeqsUpTo({"..", "/", ".", "img"}, MaxRef)

ResolveInit ==
    /\ ParserIdle
    /\ LibraryIdle
    /\ EpubIdle
    /\ EngineIdle
    /\ eng = NewEngine(NoBook, Settings(1, 122))
    /\ earlier = Null

\* getChapter resolves the src of an image of the chapter.
ResolveResourcePath(chapterPath, resourcePath) ==
    Called("resolveResourcePath", [base |-> chapterPath, ref |-> resourcePath],
           resolveResourcePath(chapterPath, resourcePath))

\* The font handling resolves a url() of a style sheet.
FontResolvePath(basePath, relativePath) ==
    Called("resolvePath", [base |-> basePath, ref |-> relativePath],
           fontResolvePath(basePath, relativePath))

ResolveNext ==
    \/ \E base \in BasePaths, ref \in References : ResolveResourcePath(base, ref)
    \/ \E base \in BasePaths, ref \in References : FontResolvePath(base, ref)

ResolveSpec == ResolveInit /\ [][ResolveNext]_vars

\* C26: for every chapter path and every relative image reference,
\* resolveResourcePath gives the archive path FontHandler's resolvePath
\* gives (a leading ../ pops a directory, a leading / is root-relative,
\* anything else is joined to the chapter's directory).
C26_SameResolution ==
    call.op = "resolveResourcePath" =>
        call.outcome = fontResolvePath(call.arg.base, call.arg.ref)

(***************************************************************************)
(* LibraryProvider: addBook and deleteBook over the IndexedDB database     *)
(* 'EPUBLibrary'.  Readwrite transactions over the same stores run one     *)
(* after the other in the order of their creation; a transaction works on  *)
(* its own view of the stores, which replaces the stores when it           *)
(* completes and is dropped when a request fails and aborts it.            *)
(***************************************************************************)
MaxTransactions == 2    \* transactions created and not yet finished
MaxBookIds == 2         \* distinct values of `book_${Date.now()}`

LibraryIds == 1..MaxBookIds

Request(store, op, key) == [store |-> store, op |-> op, key |-> key]

\* The requests addBook places on its transaction.
addRequests(bookId) ==
    <<Request("books", "add", bookId), Request("files", "add", bookId)>>

\* A faulty variant of deleteRequests: the 'files' store is left alone.
deleteRequestsBooksOnly(bookId) ==
    <<Request("books", "delete", bookId)>>

\* The requests deleteBook places on its transaction.
deleteRequests(bookId) ==
    <<Request("books", "delete", bookId), Request("files", "delete", bookId)>>

Transaction(kind, bookId, requests) ==
    [kind |-> kind, id |-> bookId, requests |-> requests, started |-> FALSE,
     view |-> [books |-> {}, files |-> {}]]

\* IDBObjectStore.add fails when the key is in the store; delete does not.
Violates(view, r) == r.op = "add" /\ r.key \in view[r.store]

Apply(view, r) ==
    [view EXCEPT ![r.store] = IF r.op = "add" THEN @ \cup {r.key} ELSE @ \ {r.key}]

\* setBooks(prev => [...prev, newBook])
Appended(list, bookId) == Append(list, bookId)

\* setBooks(prev => prev.filter(b => b.id !== bookId))
Filtered(list, bookId) == SelectSeq(list, LAMBDA b : b # bookId)

LibraryInit ==
    /\ LibraryIdle
    /\ EpubIdle
    /\ ParserIdle
    /\ EngineIdle
    /\ eng = NewEngine(NoBook, Settings(1, 122))
    /\ earlier = Null

\* addBook(file, parsedBook) up to the requests on its transaction.
AddBook(bookId) ==
    /\ Len(transactions) < MaxTransactions
    /\ transactions' = Append(transactions, Transaction("add", bookId, addRequests(bookId)))
    /\ UNCHANGED <<stores, books, eng, earlier, hookVars, parserVars, epubVars>>

\* deleteBook(bookId) up to the requests on its transaction.
DeleteBook(bookId) ==
    /\ Len(transactions) < MaxTransactions
    /\ transactions' = Append(transactions,
                              Transaction("delete", bookId, deleteRequests(bookId)))
    /\ UNCHANGED <<stores, books, eng, earlier, hookVars, parserVars, epubVars>>

\* The oldest transaction runs its next request.  The request fails on a
\* key that is there already, or for a reason of the storage (quota, I/O);
\* none of the request error handlers calls preventDefault, so the
\* transaction aborts: its view is dropped (transaction.onerror rejects
\* addBook's promise).
TransactionRequest ==
    /\ transactions # <<>>
    /\ Head(transactions).requests # <<>>
    /\ LET t == Head(transactions)
           view == IF t.started THEN t.view ELSE stores
           r == Head(t.requests)
       IN \E storageOk \in BOOLEAN :
             transactions' =
                 IF storageOk /\ ~Violates(view, r)
                 THEN <<[t EXCEPT !.started = TRUE, !.view = Apply(view, r),
                                  !.requests = Tail(@)]>> \o Tail(transactions)
                 ELSE Tail(transactions)
    /\ UNCHANGED <<stores, books, eng, earlier, hookVars, parserVars, epubVars>>

\* The oldest transaction has run its requests: it commits, and
\* transaction.oncomplete updates the React state.
TransactionComplete ==
    /\ transactions # <<>>
    /\ Head(transactions).requests = <<>>
    /\ LET t == Head(transactions)
       IN /\ stores' = t.view
          /\ books' = IF t.kind = "add" THEN Appended(books, t.id)
                      ELSE Filtered(books, t.id)
    /\ transactions' = Tail(transactions)
    /\ UNCHANGED <<eng, earlier, hookVars, parserVars, epubVars>>

LibraryNext ==
    \/ \E bookId \in LibraryIds : AddBook(bookId)
    \/ \E bookId \in LibraryIds : DeleteBook(bookId)
    \/ TransactionRequest
    \/ TransactionComplete

LibrarySpec == LibraryInit /\ [][LibraryNext]_vars

(***************************************************************************)
(* Claims about the library (LibrarySpec).                                 *)
(***************************************************************************)
\* C20: the 'books' store and the 'files' store hold the same book ids,
\* whatever addBook and deleteBook transactions have completed or failed.
C20_SameIds == stores.books = stores.files

\* Both books are stored, and a deleteBook transaction has deleted the
\* record of one of them and not yet its file.
C20_Witness ==
    /\ stores.books = LibraryIds
    /\ transactions # <<>>
    /\ Head(transactions).kind = "delete"
    /\ Head(transactions).started
    /\ Head(transactions).view.books # Head(transactions).view.files

(***************************************************************************)
(* useEPUB: the book, the current chapter and its content.  A call of      *)
(* loadEPUB, loadParsedBook or loadChapter runs to its next await; what it *)
(* awaits is in epub.inFlight until it settles.  The books are those of    *)
(* Spine: a chapter of kind "fail" is one whose getChapter rejects.        *)
(***************************************************************************)
MaxEpubCalls == 3       \* calls of the hook's functions

EpubBooks == {"A", "C", "D"}

\* What a call is waiting for: parser.parse ("parse"), getChapter(0) of a
\* book just set ("first"), getChapter(index) of loadChapter ("chapter").
Awaiting(kind, b, index) == [kind |-> kind, book |-> b, index |-> index]

\* book.getChapter(index) of useEPUB's book, for an index of the spine.
epubGetChapter(b, index) ==
    IF Spine(b)[index + 1].kind = "fail" THEN Error("ChapterError")
    ELSE Ok(chapterContent(b, index))

\* loadEPUB(file) up to `await parser.parse(buffer)`.
loadEPUB(e, b) ==
    [e EXCEPT !.loading = TRUE, !.error = Null,
              !.inFlight = Add(@, Awaiting("parse", b, 0))]

\* loadEPUB and loadParsedBook from setBook(parsedBook) to the await of
\* getChapter(0), or to the finally block when the spine is empty.
setBookAndFirst(e, b) ==
    LET set == [e EXCEPT !.book = b, !.currentChapter = 0]
    IN IF Len(Spine(b)) > 0
       THEN [set EXCEPT !.loading = TRUE, !.inFlight = Add(@, Awaiting("first", b, 0))]
       ELSE [set EXCEPT !.loading = FALSE]

\* loadParsedBook(newBookId, parsedBook)
loadParsedBook(e, newBookId) ==
    IF e.bookId = newBookId THEN e
    ELSE setBookAndFirst([e EXCEPT !.error = Null, !.bookId = newBookId], newBookId)

\* loadChapter(index) up to `await book.getChapter(index)`.
loadChapter(e, index) ==
    IF e.book = NoBook \/ index < 0 \/ index >= Len(Spine(e.book)) THEN e
    ELSE [e EXCEPT !.loading = TRUE,
                   !.inFlight = Add(@, Awaiting("chapter", e.book, index))]

\* nextChapter(); without a book, book.spine throws and nothing changes.
nextChapter(e) ==
    IF e.book # NoBook /\ e.currentChapter < Len(Spine(e.book)) - 1
    THEN loadChapter(e, e.currentChapter + 1)
    ELSE e

\* prevChapter()
prevChapter(e) ==
    IF e.currentChapter > 0 THEN loadChapter(e, e.currentChapter - 1) ELSE e

\* The awaited getChapter of l settles: setChapterContent, and for
\* loadChapter setCurrentChapter(index); setError when it rejected;
\* finally setLoading(false).
chapterSettled(e, l) ==
    LET chapter == epubGetChapter(l.book, l.index)
        done == [e EXCEPT !.loading = FALSE, !.inFlight = Remove(@, l)]
    IN IF chapter.tag = "error" THEN [done EXCEPT !.error = chapter]
       ELSE IF l.kind = "first" THEN [done EXCEPT !.chapterContent = chapter.value]
       ELSE [done EXCEPT !.chapterContent = chapter.value, !.currentChapter = l.index]

EpubInit ==
    /\ EpubIdle
    /\ ParserIdle
    /\ LibraryIdle
    /\ EngineIdle
    /\ eng = NewEngine(NoBook, Settings(1, 122))
    /\ earlier = Null

\* A call of one of the hook's functions that leaves the hook as e.
EpubCalled(e) ==
    /\ epub.calls < MaxEpubCalls
    /\ epub' = [e EXCEPT !.calls = @ + 1]
    /\ UNCHANGED <<eng, earlier, hookVars, parserVars, libraryVars>>

LoadEPUB(b) == EpubCalled(loadEPUB(epub, b))

LoadParsedBook(newBookId) == EpubCalled(loadParsedBook(epub, newBookId))

\* loadChapter(index), directly or from loadChapterByHref.
LoadChapter(index) == EpubCalled(loadChapter(epub, index))

NextChapter == EpubCalled(nextChapter(epub))

PrevChapter == EpubCalled(prevChapter(epub))

\* parser.parse of a loadEPUB call settles: it throws, or the book is set.
ParseSettled(l) ==
    /\ BagIn(l, epub.inFlight)
    /\ l.kind = "parse"
    /\ LET e == [epub EXCEPT !.inFlight = Remove(@, l)]
       IN \E ok \in BOOLEAN :
             epub' = IF ok THEN setBookAndFirst(e, l.book)
                     ELSE [e EXCEPT !.error = Error("ParseError"), !.loading = FALSE]
    /\ UNCHANGED <<eng, earlier, hookVars, parserVars, libraryVars>>

\* book.getChapter of a call settles.
ChapterSettled(l) ==
    /\ BagIn(l, epub.inFlight)
    /\ l.kind \in {"first", "chapter"}
    /\ epub' = chapterSettled(epub, l)
    /\ UNCHANGED <<eng, earlier, hookVars, parserVars, libraryVars>>

EpubIndexes == (0 - 1)..3

EpubNext ==
    \/ \E b \in EpubBooks : LoadEPUB(b)
    \/ \E b \in EpubBooks : LoadParsedBook(b)
    \/ \E index \in EpubIndexes : LoadChapter(index)
    \/ NextChapter
    \/ PrevChapter
    \/ \E l \in BagToSet(epub.inFlight) : ParseSettled(l)
    \/ \E l \in BagToSet(epub.inFlight) : ChapterSettled(l)

EpubSpec == EpubInit /\ [][EpubNext]_vars

(***************************************************************************)
(* Claims about useEPUB (EpubSpec).                                        *)
(***************************************************************************)
\* C30: whenever no load is in flight, chapterContent is the content of
\* chapter currentChapter of the loaded book, and 0 <= currentChapter <
\* spine.length.
C30_CurrentChapterContent ==
    (epub.inFlight = EmptyBag /\ epub.book # NoBook) =>
        /\ 0 <= epub.currentChapter
        /\ epub.currentChapter < Len(Spine(epub.book))
        /\ epub.chapterContent = chapterContent(epub.book, epub.currentChapter)

====
